---------------------------- MODULE Spec2Model ----------------------------
(***************************************************************************)
(* Model of src/app.py: the order-fulfilment dashboard script.             *)
(*                                                                         *)
(* The script is a straight line of pandas statements followed by one of   *)
(* four page branches.  The state is the five loaded tables, the slider    *)
(* widgets' values, the unified table df, the position pc in the script    *)
(* and the rendered view.                                                  *)
(*                                                                         *)
(* Cells.  A pandas cell is modelled as a record whose field names tell    *)
(* its kind, so that cells of different kinds compare unequal (as 0 and    *)
(* "None" do in pandas):                                                   *)
(*     [num |-> n, den |-> d]   the number n/d, d > 0, in lowest terms     *)
(*     [str |-> s]              the string s                               *)
(*     [nan |-> TRUE]           NaN (a missing cell, or 0/0)               *)
(*     [inf |-> s]              s * infinity, s \in {-1, 1}                *)
(* Arithmetic is exact rational arithmetic with the IEEE special values;   *)
(* binary rounding error and the sign of zero are not represented.         *)
(***************************************************************************)
EXTENDS Integers, Sequences, FiniteSets, TLC

VARIABLES orders, delivery, routes, cost, feedback, sliders, df, pc, view

vars == <<orders, delivery, routes, cost, feedback, sliders, df, pc, view>>

\* What a run of the script only reads: the cached tables and the widget state.
tables == <<orders, delivery, routes, cost, feedback, sliders>>

-----------------------------------------------------------------------------
(* Numbers                                                                 *)

Abs(n) == IF n < 0 THEN -n ELSE n

Sgn(n) == IF n < 0 THEN -1 ELSE IF n = 0 THEN 0 ELSE 1

RECURSIVE GCD(_, _)
GCD(a, b) == IF b = 0 THEN a ELSE GCD(b, a % b)

\* The rational n/d (d # 0) in lowest terms with a positive denominator.
Q(n, d) ==
    LET g == GCD(Abs(n), Abs(d))
        s == Sgn(d)
    IN  [num |-> (s * n) \div g, den |-> Abs(d) \div g]

Num(n) == Q(n, 1)

Str(s) == [str |-> s]

NaN == [nan |-> TRUE]

Inf(s) == [inf |-> s]

IsNum(x) == DOMAIN x = {"num", "den"}

IsStr(x) == DOMAIN x = {"str"}

IsNaN(x) == DOMAIN x = {"nan"}

IsInf(x) == DOMAIN x = {"inf"}

\* The sign of a number or an infinity.
SignOf(x) == IF IsInf(x) THEN x.inf ELSE Sgn(x.num)

\* float + float
FAdd(a, b) ==
    IF IsNaN(a) \/ IsNaN(b) THEN NaN
    ELSE IF IsInf(a) /\ IsInf(b) THEN (IF a.inf = b.inf THEN a ELSE NaN)
    ELSE IF IsInf(a) THEN a
    ELSE IF IsInf(b) THEN b
    ELSE Q(a.num * b.den + b.num * a.den, a.den * b.den)

\* float * float
FMul(a, b) ==
    IF IsNaN(a) \/ IsNaN(b) THEN NaN
    ELSE IF IsInf(a) \/ IsInf(b)
         THEN (IF SignOf(a) * SignOf(b) = 0 THEN NaN
                                            ELSE Inf(SignOf(a) * SignOf(b)))
    ELSE Q(a.num * b.num, a.den * b.den)

\* float - float
FSub(a, b) == FAdd(a, FMul(Num(-1), b))

\* numpy float64 true division: x/0 is an infinity, 0/0 is NaN, no exception.
FDiv(a, b) ==
    IF IsNaN(a) \/ IsNaN(b) THEN NaN
    ELSE IF IsInf(a) THEN (IF IsInf(b) THEN NaN
                           ELSE Inf(a.inf * (IF SignOf(b) < 0 THEN -1 ELSE 1)))
    ELSE IF IsInf(b) THEN Num(0)
    ELSE IF b.num = 0 THEN (IF a.num = 0 THEN NaN ELSE Inf(Sgn(a.num)))
    ELSE Q(a.num * b.den, a.den * b.num)

\* float > float; every comparison with NaN is false.
FGt(a, b) ==
    IF IsNaN(a) \/ IsNaN(b) THEN FALSE
    ELSE IF IsInf(a) THEN (a.inf = 1 /\ ~(IsInf(b) /\ b.inf = 1))
    ELSE IF IsInf(b) THEN b.inf = -1
    ELSE a.num * b.den > b.num * a.den

\* floor(n/d) for d > 0.
Floor(x) == x.num \div x.den

\* Python int(x): truncation toward zero; raises on NaN and on an infinity.
PyInt(x) ==
    IF IsNaN(x) THEN [err |-> "ValueError"]
    ELSE IF IsInf(x) THEN [err |-> "OverflowError"]
    ELSE Num(Sgn(x.num) * (Abs(x.num) \div x.den))

RECURSIVE Pow10(_)
Pow10(k) == IF k = 0 THEN 1 ELSE 10 * Pow10(k - 1)

\* round(x, k): to k decimals, ties to even; NaN and infinities pass through.
Round(x, k) ==
    IF ~IsNum(x) THEN x
    ELSE LET y    == Q(x.num * Pow10(k), x.den)
             f    == Floor(y)
             twoR == 2 * (y.num - f * y.den)   \* 2 * remainder numerator
             up   == twoR > y.den \/ (twoR = y.den /\ f % 2 = 1)
         IN  Q(IF up THEN f + 1 ELSE f, Pow10(k))

IsErr(x) == DOMAIN x = {"err"}

-----------------------------------------------------------------------------
(* Sequences and tables                                                    *)

\* The sum of the cells lo..hi of a column.
RECURSIVE SumRange(_, _, _)
SumRange(s, lo, hi) ==
    IF lo > hi THEN Num(0)
    ELSE IF lo = hi THEN s[lo]
    ELSE LET mid == (lo + hi) \div 2
         IN  FAdd(SumRange(s, lo, mid), SumRange(s, mid + 1, hi))

SumSeq(s) == SumRange(s, 1, Len(s))

Column(t, c) == [i \in 1..Len(t) |-> t[i][c]]

\* The k-th smallest cell of a non-empty column of numbers: the cell that
\* stands at position k when the column is sorted ascending.
KthSmallest(col, k) ==
    LET n == Len(col)
        i == CHOOSE i \in 1..n :
               /\ Cardinality({j \in 1..n : FGt(col[i], col[j])}) < k
               /\ Cardinality({j \in 1..n : ~FGt(col[j], col[i])}) >= k
    IN  col[i]

\* Series.median(): NaN for an empty column.
Median(col) ==
    LET n == Len(col)
    IN  IF n = 0 THEN NaN
        ELSE IF n % 2 = 1 THEN KthSmallest(col, (n + 1) \div 2)
        ELSE FDiv(FAdd(KthSmallest(col, n \div 2),
                       KthSmallest(col, n \div 2 + 1)), Num(2))

\* Series.mean(): NaN for an empty column.
Mean(col) == IF Len(col) = 0 THEN NaN ELSE FDiv(SumSeq(col), Num(Len(col)))

\* Series.max(): NaN for an empty column.
Max(col) == IF Len(col) = 0 THEN NaN ELSE KthSmallest(col, Len(col))

\* Series.sum(): 0 for an empty column.
Sum(col) == SumSeq(col)

\* An inner join in place of the left join: unmatched left rows are dropped.
RECURSIVE MergeInner(_, _, _)
MergeInner(left, right, cols) ==
    IF left = <<>> THEN <<>>
    ELSE LET l == Head(left)
             m == SelectSeq(right, LAMBDA r : r.order_id = l.order_id)
         IN  [i \in 1..Len(m) |-> l @@ [c \in cols |-> m[i][c]]]
             \o MergeInner(Tail(left), right, cols)

\* left.merge(right, on="order_id", how="left"): every left row in order, once
\* per matching right row (in right order), or once with NaN in the columns
\* `cols` that right brings when no right row matches.
RECURSIVE MergeLeft(_, _, _)
MergeLeft(left, right, cols) ==
    IF left = <<>> THEN <<>>
    ELSE LET l    == Head(left)
             m    == SelectSeq(right, LAMBDA r : r.order_id = l.order_id)
             rows == IF m = <<>>
                     THEN << l @@ [c \in cols |-> NaN] >>
                     ELSE [i \in 1..Len(m) |-> l @@ [c \in cols |-> m[i][c]]]
         IN  rows \o MergeLeft(Tail(left), right, cols)

\* Missing cells of the categorical columns filled with the empty string.
FillNaEmptyString(t) ==
    [i \in 1..Len(t) |->
        [c \in DOMAIN t[i] |->
            IF ~IsNaN(t[i][c]) THEN t[i][c]
            ELSE IF c \in {"status", "carrier", "special_handling"}
                 THEN Str("") ELSE Num(0)]]

\* df.fillna(0): every NaN cell becomes the number 0, whatever its column.
FillNa(t) ==
    [i \in 1..Len(t) |->
        [c \in DOMAIN t[i] |-> IF IsNaN(t[i][c]) THEN Num(0) ELSE t[i][c]]]

\* df[name] = col: the table with one more (or one replaced) column.
WithColumn(t, name, col) ==
    [i \in 1..Len(t) |-> (name :> col[i]) @@ t[i]]

\* The columns each loaded table brings besides the join key.
DeliveryCols ==
    {"promised_delivery_days", "actual_delivery_days", "status",
     "delivery_cost", "rating"}

RoutesCols == {"carrier", "traffic_delay"}

CostCols == {"special_handling"}

FeedbackCols == {"feedback_rating"}

-----------------------------------------------------------------------------
(* Row-level rules of the derivation blocks                                *)

\* df["actual_delivery_days"] > df["promised_delivery_days"]
Delay(r) == FGt(r.actual_delivery_days, r.promised_delivery_days)

\* df["status"].isin(["Damaged", "Wrong Item"])
Damage(r) == r.status \in {Str("Damaged"), Str("Wrong Item")}

\* df["delivery_cost"] > df["delivery_cost"].median()
CostOverrun(r, median) == FGt(r.delivery_cost, median)

\* The flags combined with "and".
DeviationAll(r) == r.delay /\ r.damage /\ r.cost_overrun

\* df["delay"] | df["damage"] | df["cost_overrun"]
Deviation(r) == r.delay \/ r.damage \/ r.cost_overrun

\* The overrun taken as median - delivery_cost.
ValueLeakageSwapped(r, median) ==
    LET v0 == Num(0)
        v1 == IF r.delay
              THEN FAdd(v0, FMul(Q(1, 10), r.order_value)) ELSE v0
        v2 == IF r.damage
              THEN FAdd(v1, FMul(Q(2, 10), r.order_value)) ELSE v1
        v3 == IF r.cost_overrun
              THEN FAdd(v2, FSub(median, r.delivery_cost)) ELSE v2
    IN  v3

\* The masked statements assigning (=) where the script accumulates (+=).
ValueLeakageAssigned(r, median) ==
    IF r.cost_overrun THEN FSub(r.delivery_cost, median)
    ELSE IF r.damage THEN FMul(Q(2, 10), r.order_value)
    ELSE IF r.delay THEN FMul(Q(1, 10), r.order_value)
    ELSE Num(0)

\* value_leakage of one row: 0, then the three masked += in order.
ValueLeakage(r, median) ==
    LET v0 == Num(0)
        v1 == IF r.delay
              THEN FAdd(v0, FMul(Q(1, 10), r.order_value)) ELSE v0
        v2 == IF r.damage
              THEN FAdd(v1, FMul(Q(2, 10), r.order_value)) ELSE v1
        v3 == IF r.cost_overrun
              THEN FAdd(v2, FSub(r.delivery_cost, median)) ELSE v2
    IN  v3

\* The rules read as "first match wins".
RootCauseFirstWins(r) ==
    IF FGt(r.traffic_delay, Num(2)) THEN Str("Traffic")
    ELSE IF r.carrier \in {Str("GlobalTransit")} THEN Str("Carrier Reliability")
    ELSE IF r.special_handling # Str("None") THEN Str("Handling Complexity")
    ELSE Str("Normal")

\* root_cause of one row: "Normal", then the three masked assignments in order.
RootCause(r) ==
    LET t0 == Str("Normal")
        t1 == IF FGt(r.traffic_delay, Num(2)) THEN Str("Traffic") ELSE t0
        t2 == IF r.carrier \in {Str("GlobalTransit")}
              THEN Str("Carrier Reliability") ELSE t1
        t3 == IF r.special_handling # Str("None")
              THEN Str("Handling Complexity") ELSE t2
    IN  t3

\* risk_score of one row, given the table-wide mean cost and max traffic delay.
RiskScore(r, meanCost, maxTraffic) ==
    FAdd(FAdd(FMul(Q(4, 10),
                   FDiv(r.actual_delivery_days,
                        FAdd(r.promised_delivery_days, Num(1)))),
              FMul(Q(3, 10),
                   FDiv(r.delivery_cost, FAdd(meanCost, Num(1))))),
         FMul(Q(3, 10),
              FDiv(r.traffic_delay, FAdd(maxTraffic, Num(1)))))

-----------------------------------------------------------------------------
(* The script, top to bottom                                               *)

NoView == [page |-> "none"]

\* line 62
MergeDelivery ==
    /\ pc = "merge_delivery"
    /\ df' = MergeLeft(orders, delivery, DeliveryCols)
    /\ pc' = "merge_routes"
    /\ UNCHANGED <<tables, view>>

\* line 63
MergeRoutes ==
    /\ pc = "merge_routes"
    /\ df' = MergeLeft(df, routes, RoutesCols)
    /\ pc' = "merge_cost"
    /\ UNCHANGED <<tables, view>>

\* line 64
MergeCost ==
    /\ pc = "merge_cost"
    /\ df' = MergeLeft(df, cost, CostCols)
    /\ pc' = "merge_feedback"
    /\ UNCHANGED <<tables, view>>

\* line 65
MergeFeedback ==
    /\ pc = "merge_feedback"
    /\ df' = MergeLeft(df, feedback, FeedbackCols)
    /\ pc' = "fillna"
    /\ UNCHANGED <<tables, view>>

\* line 67
FillNaStep ==
    /\ pc = "fillna"
    /\ df' = FillNa(df)
    /\ pc' = "deviation"
    /\ UNCHANGED <<tables, view>>

\* lines 72-76, a statement at a time
DeviationLogic ==
    /\ pc = "deviation"
    /\ \E d1 \in {WithColumn(df, "delay",
                              [i \in 1..Len(df) |-> Delay(df[i])])} :
       \E d2 \in {WithColumn(d1, "damage",
                              [i \in 1..Len(df) |-> Damage(d1[i])])} :
       \E median \in {Median(Column(d2, "delivery_cost"))} :
       \E d3 \in {WithColumn(d2, "cost_overrun",
                     [i \in 1..Len(df) |-> CostOverrun(d2[i], median)])} :
         df' = WithColumn(d3, "deviation",
                          [i \in 1..Len(df) |-> Deviation(d3[i])])
    /\ pc' = "leakage"
    /\ UNCHANGED <<tables, view>>

\* lines 81-86
ValueLeakageStep ==
    /\ pc = "leakage"
    /\ \E median \in {Median(Column(df, "delivery_cost"))} :
         df' = WithColumn(df, "value_leakage",
                          [i \in 1..Len(df) |-> ValueLeakage(df[i], median)])
    /\ pc' = "root_cause"
    /\ UNCHANGED <<tables, view>>

\* lines 91-94
RootCauseTagging ==
    /\ pc = "root_cause"
    /\ df' = WithColumn(df, "root_cause",
                        [i \in 1..Len(df) |-> RootCause(df[i])])
    /\ pc' = "risk"
    /\ UNCHANGED <<tables, view>>

\* lines 99-103
RiskScoring ==
    /\ pc = "risk"
    /\ \E meanCost \in {Mean(Column(df, "delivery_cost"))} :
       \E maxTraffic \in {Max(Column(df, "traffic_delay"))} :
         df' = WithColumn(df, "risk_score",
                 [i \in 1..Len(df) |-> RiskScore(df[i], meanCost, maxTraffic)])
    /\ pc' = "page"
    /\ UNCHANGED <<tables, view>>

-----------------------------------------------------------------------------
(* The pages                                                               *)

\* The distinct cells of a column: the keys of df.groupby(c).
Keys(t, c) == {t[i][c] : i \in 1..Len(t)}

\* df.groupby(key)[col].sum()
GroupSum(t, key, col) ==
    [k \in Keys(t, key) |->
        Sum(Column(SelectSeq(t, LAMBDA r : r[key] = k), col))]

\* df.groupby(key)[col].mean()
GroupMean(t, key, col) ==
    [k \in Keys(t, key) |->
        Mean(Column(SelectSeq(t, LAMBDA r : r[key] = k), col))]

\* Ascending order in place of descending.
Ascending(g, s) ==
    \A i, j \in 1..Len(s) : i < j => ~FGt(g[s[i]], g[s[j]])

\* Whether the ranking s of a Series g is in descending order of value.
Descending(g, s) ==
    \A i, j \in 1..Len(s) : i < j => ~FGt(g[s[j]], g[s[i]])

\* Series.sort_values(ascending=False): the rankings of the index of g in
\* descending order of value; equal values may come in either order.
SortValuesDesc(g) ==
    {s \in [1..Cardinality(DOMAIN g) -> DOMAIN g] :
        /\ \A i, j \in 1..Len(s) : i # j => s[i] # s[j]
        /\ Descending(g, s)}

\* head(3)
HeadCount == 3

\* Series.head(n) of a ranking.
HeadOf(s, n) == SubSeq(s, 1, IF Len(s) < n THEN Len(s) ELSE n)

\* The number of TRUE cells of a boolean column, as a number cell.
CountTrue(col) == Num(Cardinality({i \in 1..Len(col) : col[i]}))

\* The first exception among the values a page evaluates in order, or "none".
RECURSIVE FirstError(_)
FirstError(vals) ==
    IF vals = <<>> THEN "none"
    ELSE IF IsErr(Head(vals)) THEN Head(vals).err
    ELSE FirstError(Tail(vals))

\* A page either renders its outputs or stops at the first uncaught exception.
Render(page, raising, outputs) ==
    LET e == FirstError(raising)
    IN  IF e = "none"
        THEN [page |-> page, error |-> "none"] @@ outputs
        ELSE [page |-> page, error |-> e]

\* lines 116-140
ExecutiveDashboard ==
    /\ pc = "page"
    /\ \E total \in {PyInt(Sum(Column(df, "value_leakage")))} :
       \E perfect \in
            {Round(FMul(FDiv(FSub(Num(Len(df)),
                                  CountTrue(Column(df, "deviation"))),
                             Num(Len(df))),
                        Num(100)), 1)} :
       \E rating \in {Round(Mean(Column(df, "rating")), 2)} :
       \E active \in {PyInt(CountTrue(Column(df, "deviation")))} :
       \E byStatus \in {GroupSum(df, "status", "value_leakage")} :
       \E scatter \in
            {[cost    |-> GroupMean(df, "carrier", "delivery_cost"),
              leakage |-> GroupMean(df, "carrier", "value_leakage")]} :
       \E byCarrier \in {GroupSum(df, "carrier", "value_leakage")} :
       \E ranking \in SortValuesDesc(byCarrier) :
       \E top \in {HeadOf(ranking, HeadCount)} :
       \E actions \in
            {[i \in 1..Len(top) |->
                [carrier |-> top[i],
                 loss    |-> byCarrier[top[i]],
                 saving  |-> PyInt(FMul(byCarrier[top[i]], Q(3, 10)))]]} :
         view' = Render("Executive Dashboard",
                        <<total, active>>
                          \o [i \in 1..Len(top) |-> actions[i].saving],
                        [total_leakage      |-> total,
                         perfect_order_rate |-> perfect,
                         avg_rating         |-> rating,
                         active_deviations  |-> active,
                         leakage_by_status  |-> byStatus,
                         carrier_scatter    |-> scatter,
                         actions            |-> actions])
    /\ pc' = "done"
    /\ UNCHANGED <<tables, df>>

\* lines 145-167
ProcessDeviationMining ==
    /\ pc = "page"
    /\ \E flow \in {[i \in 1..Len(df) |->
                        <<df[i].priority, df[i].carrier, df[i].status>>]} :
       \E groups \in {{flow[i] : i \in 1..Len(flow)}} :
       \E count \in {[g \in groups |->
                        Cardinality({i \in 1..Len(flow) : flow[i] = g})]} :
       \E labels \in {UNION {{g[1], g[2], g[3]} : g \in groups}} :
       \E links \in {{[group |-> g, source |-> g[1], target |-> g[2],
                        value |-> count[g]] : g \in groups}
                      \cup
                      {[group |-> g, source |-> g[2], target |-> g[3],
                        value |-> count[g]] : g \in groups}} :
         view' = Render("Process Deviation Mining", <<>>,
                        [labels |-> labels, links |-> links])
    /\ pc' = "done"
    /\ UNCHANGED <<tables, df>>

\* The division done on Python floats, which raises on a zero divisor.
RoiHorizonPython(simulated_saving) ==
    IF IsNum(simulated_saving) /\ simulated_saving.num = 0
    THEN [err |-> "ZeroDivisionError"]
    ELSE Round(FDiv(Num(100000), simulated_saving), 1)

\* 100000 / simulated_saving, rounded to one decimal (line 191).
RoiHorizon(simulated_saving) ==
    Round(FDiv(Num(100000), simulated_saving), 1)

\* The route weight taken as 0.4 like the other two.
SavingEqualWeights(base_leakage, delay_reduction, damage_reduction, route_saving) ==
    FMul(base_leakage,
         FAdd(FAdd(FMul(FDiv(Num(delay_reduction), Num(100)), Q(4, 10)),
                   FMul(FDiv(Num(damage_reduction), Num(100)), Q(4, 10))),
              FMul(FDiv(Num(route_saving), Num(100)), Q(4, 10))))

\* lines 182-186
SimulatedSaving(base_leakage, delay_reduction, damage_reduction, route_saving) ==
    FMul(base_leakage,
         FAdd(FAdd(FMul(FDiv(Num(delay_reduction), Num(100)), Q(4, 10)),
                   FMul(FDiv(Num(damage_reduction), Num(100)), Q(4, 10))),
              FMul(FDiv(Num(route_saving), Num(100)), Q(2, 10))))

\* line 180
BaseLeakage(t) == Sum(Column(t, "value_leakage"))

\* lines 172-191
ValueLeakageSimulator ==
    /\ pc = "page"
    /\ LET base_leakage     == BaseLeakage(df)
           simulated_saving == SimulatedSaving(base_leakage,
                                               sliders.delay_reduction,
                                               sliders.damage_reduction,
                                               sliders.route_saving)
           savings  == PyInt(simulated_saving)
           baseline == PyInt(FSub(base_leakage, simulated_saving))
           roi      == RoiHorizon(simulated_saving)
       IN  view' = Render("Value Leakage Simulator",
                          <<savings, baseline, roi>>,
                          [base_leakage      |-> base_leakage,
                           simulated_saving  |-> simulated_saving,
                           new_baseline      |-> FSub(base_leakage,
                                                      simulated_saving),
                           projected_savings |-> savings,
                           leakage_baseline  |-> baseline,
                           roi_horizon       |-> roi])
    /\ pc' = "done"
    /\ UNCHANGED <<tables, df>>

\* lines 196-198
RawData ==
    /\ pc = "page"
    /\ view' = Render("Raw Data", <<>>, [dataframe |-> df])
    /\ pc' = "done"
    /\ UNCHANGED <<tables, df>>

Next ==
    \/ MergeDelivery
    \/ MergeRoutes
    \/ MergeCost
    \/ MergeFeedback
    \/ FillNaStep
    \/ DeviationLogic
    \/ ValueLeakageStep
    \/ RootCauseTagging
    \/ RiskScoring
    \/ ExecutiveDashboard
    \/ ProcessDeviationMining
    \/ ValueLeakageSimulator
    \/ RawData

-----------------------------------------------------------------------------
(* Inputs: what load_data() can return, and the widget state                *)

\* Bounds of the model: the most rows of the orders table (in general, under
\* SpecJoin and under SpecTop), and the most rows of a secondary table under
\* SpecJoin.
MaxOrders == 2

JoinOrders == 1

JoinRows == 2

TopOrders == 4

\* All sequences over S of length at most n.
SeqsUpTo(S, n) == UNION {[1..k -> S] : k \in 0..n}

\* The empty sequence or one element of S.
AtMostOne(S) == {<<>>} \cup {<<v>> : v \in S}

\* Orders tables of at most n rows, order_id 1..k, order_value from values.
OrdersTables(n, values) ==
    UNION {{[i \in 1..k |-> [order_id    |-> Num(i),
                             order_value |-> f[i],
                             priority    |-> Str("Express")]] :
              f \in [1..k -> values]} : k \in 0..n}

\* The rows f gives the order ids 1..n, id by id.
RECURSIVE RowsUpTo(_, _)
RowsUpTo(f, n) ==
    IF n = 0 THEN <<>>
    ELSE RowsUpTo(f, n - 1)
         \o [j \in 1..Len(f[n]) |-> ("order_id" :> Num(n)) @@ f[n][j]]

\* Secondary tables over the order ids 1..n: for each id one of the row
\* sequences in perId.  (A left merge on order_id reads, for each id, only
\* the rows carrying that id, in their order.)
KeyedTables(n, perId) == {RowsUpTo(f, n) : f \in [1..n -> perId]}

DeliveryRow(promised, actual, status, delivery_cost) ==
    [promised_delivery_days |-> Num(promised),
     actual_delivery_days   |-> Num(actual),
     status                 |-> Str(status),
     delivery_cost          |-> Num(delivery_cost),
     rating                 |-> Num(4)]

RoutesRow(carrier, traffic_delay) ==
    [carrier |-> Str(carrier), traffic_delay |-> Num(traffic_delay)]

CostRow(special_handling) == [special_handling |-> special_handling]

FeedbackRow == [feedback_rating |-> Num(4)]

\* The sliders' default values (lines 176-178).
DefaultSliders ==
    [delay_reduction |-> 20, damage_reduction |-> 10, route_saving |-> 15]

\* The state when load_data() has returned (line 57).
InitWith(O, D, R, C, F, W) ==
    /\ orders \in O
    /\ delivery \in D
    /\ routes \in R
    /\ cost \in C
    /\ feedback \in F
    /\ sliders \in W
    /\ df = <<>>
    /\ pc = "merge_delivery"
    /\ view = NoView

\* Orders of either sign of value; at most one delivery per order, on time or
\* late, of every status class, at one of two costs; every order routed,
\* costed and rated.
Init ==
    InitWith(OrdersTables(MaxOrders, {Num(-1000), Num(1000)}),
             KeyedTables(Len(orders),
                 AtMostOne({DeliveryRow(2, a, s, c) :
                              a \in {2, 5},
                              s \in {"Delivered", "Damaged", "Wrong Item"},
                              c \in {50, 150}})),
             KeyedTables(Len(orders), {<<RoutesRow("FastShip", 1)>>}),
             KeyedTables(Len(orders), {<<CostRow(Str("None"))>>}),
             KeyedTables(Len(orders), {<<FeedbackRow>>}),
             {DefaultSliders})

Spec == Init /\ [][Next]_vars

\* Every order delivered; at most one route per order, by either carrier, at
\* the traffic threshold or above it; at most one cost row per order, with
\* no special handling, with some, or with the cell missing.
InitTag ==
    InitWith(OrdersTables(MaxOrders, {Num(1000)}),
             KeyedTables(Len(orders), {<<DeliveryRow(2, 2, "Delivered", 100)>>}),
             KeyedTables(Len(orders),
                 AtMostOne({RoutesRow(c, t) :
                              c \in {"FastShip", "GlobalTransit"},
                              t \in {2, 3}})),
             KeyedTables(Len(orders),
                 AtMostOne({CostRow(Str("None")), CostRow(Str("Fragile")),
                            CostRow(NaN)})),
             KeyedTables(Len(orders), {<<FeedbackRow>>}),
             {DefaultSliders})

SpecTag == InitTag /\ [][Next]_vars

\* Each order matched or not in each of the four secondary tables; a
\* delivery costs 50 or is a credit of 2.
InitFill ==
    InitWith(OrdersTables(MaxOrders, {Num(1000)}),
             KeyedTables(Len(orders),
                 AtMostOne({DeliveryRow(2, 2, "Delivered", c) : c \in {-2, 50}})),
             KeyedTables(Len(orders), AtMostOne({RoutesRow("GlobalTransit", 3)})),
             KeyedTables(Len(orders), AtMostOne({CostRow(Str("None"))})),
             KeyedTables(Len(orders), AtMostOne({FeedbackRow})),
             {DefaultSliders})

SpecFill == InitFill /\ [][Next]_vars

\* Secondary tables of at most n rows in all over the order ids 1..ids, the
\* rows of one id alike.
RowsTables(ids, n, row) ==
    {t \in KeyedTables(ids, SeqsUpTo({row}, n)) : Len(t) <= n}

\* Up to JoinOrders orders; each secondary table holds up to JoinRows rows
\* over the orders' ids: none, one or several per id.
InitJoin ==
    InitWith(OrdersTables(JoinOrders, {Num(1000)}),
             RowsTables(Len(orders), JoinRows, DeliveryRow(2, 5, "Delivered", 100)),
             RowsTables(Len(orders), JoinRows, RoutesRow("FastShip", 1)),
             RowsTables(Len(orders), JoinRows, CostRow(Str("None"))),
             RowsTables(Len(orders), JoinRows, FeedbackRow),
             {DefaultSliders})

SpecJoin == InitJoin /\ [][Next]_vars

\* The sliders at their minimum, default and maximum (lines 176-178).
SliderChoices ==
    [delay_reduction : {0, 20, 50}, damage_reduction : {0, 10, 50},
     route_saving : {0, 15, 30}]

\* Orders of two values, each undelivered, delivered late or delivered
\* damaged; any of the slider choices.
InitSim ==
    InitWith(OrdersTables(MaxOrders, {Num(1000), Num(5000)}),
             KeyedTables(Len(orders),
                 AtMostOne({DeliveryRow(2, 5, "Delivered", 100),
                            DeliveryRow(2, 2, "Damaged", 100)})),
             KeyedTables(Len(orders), {<<RoutesRow("FastShip", 1)>>}),
             KeyedTables(Len(orders), {<<CostRow(Str("None"))>>}),
             KeyedTables(Len(orders), {<<FeedbackRow>>}),
             SliderChoices)

SpecSim == InitSim /\ [][Next]_vars

Carriers == <<"FastShip", "GlobalTransit", "QuickMove", "RoadRunner">>

\* Up to TopOrders orders of two values, all delivered late at one cost, so
\* that each leaks a tenth of its value; order i routed by one of the first
\* i carriers (the grouping does not read the carriers' names).
InitTop ==
    InitWith(OrdersTables(TopOrders, {Num(1000), Num(2000)}),
             KeyedTables(Len(orders), {<<DeliveryRow(2, 5, "Delivered", 100)>>}),
             {RowsUpTo(f, Len(orders)) :
                f \in {g \in [1..Len(orders) -> {<<RoutesRow(c, 1)>> :
                                  c \in {Carriers[k] : k \in DOMAIN Carriers}}] :
                         \A i \in 1..Len(orders) :
                           \E k \in 1..i : k \in DOMAIN Carriers
                                            /\ g[i][1].carrier = Str(Carriers[k])}},
             KeyedTables(Len(orders), {<<CostRow(Str("None"))>>}),
             KeyedTables(Len(orders), {<<FeedbackRow>>}),
             {DefaultSliders})

SpecTop == InitTop /\ [][Next]_vars

-----------------------------------------------------------------------------
(* Properties                                                              *)

Joined == pc \notin {"merge_delivery", "merge_routes", "merge_cost",
                     "merge_feedback"}

Filled == Joined /\ pc # "fillna"

Classified == Filled /\ pc # "deviation"

Estimated == Classified /\ pc # "leakage"

Tagged == Estimated /\ pc # "root_cause"

Scored == Tagged /\ pc # "risk"

Rows == 1..Len(df)

\* x >= 0 for a number cell x.
NonNegative(x) == ~FGt(Num(0), x)

\* The table-wide median of delivery_cost.
M == Median(Column(df, "delivery_cost"))

\* C1: after the Deviation Classifier, in every row deviation is true iff
\* at least one of delay, damage and cost_overrun is, where delay is
\* actual_delivery_days > promised_delivery_days, damage is status being
\* "Damaged" or "Wrong Item", and cost_overrun is delivery_cost > the median
\* of delivery_cost over the whole table.
C1_DeviationIffAnyFlag ==
    Classified =>
      \A i \in Rows :
        /\ df[i].delay =
             FGt(df[i].actual_delivery_days, df[i].promised_delivery_days)
        /\ df[i].damage =
             (df[i].status = Str("Damaged") \/ df[i].status = Str("Wrong Item"))
        /\ df[i].cost_overrun = FGt(df[i].delivery_cost, M)
        /\ df[i].deviation =
             (df[i].delay \/ df[i].damage \/ df[i].cost_overrun)

\* A classified table with a row deviating by cost overrun alone and a row
\* not deviating.
C1_Witness ==
    /\ Classified
    /\ \E i, j \in Rows :
         /\ df[i].deviation /\ df[i].cost_overrun
         /\ ~df[i].delay /\ ~df[i].damage
         /\ ~df[j].deviation

C9_LeakageIsSumOfContributions ==
    Estimated =>
      /\ \A i \in Rows :
           /\ df[i].cost_overrun = FGt(df[i].delivery_cost, M)
           /\ df[i].value_leakage =
                FAdd(FAdd(IF df[i].delay
                          THEN Q(df[i].order_value.num, 10 * df[i].order_value.den)
                          ELSE Num(0),
                          IF df[i].damage
                          THEN Q(2 * df[i].order_value.num,
                                 10 * df[i].order_value.den)
                          ELSE Num(0)),
                     IF df[i].cost_overrun
                     THEN FSub(df[i].delivery_cost, M) ELSE Num(0))
      /\ Len(df) = 1 => ~df[1].cost_overrun
      /\ \A i, j \in Rows :
           (Len(df) = 2 /\ df[i].delivery_cost = Num(50)
                        /\ df[j].delivery_cost = Num(150))
           => /\ M = Num(100)
              /\ ~df[i].cost_overrun /\ df[j].cost_overrun
              /\ FSub(df[j].delivery_cost, M) = Num(50)

\* Two rows costing 50 and 150, the 150 row late and damaged with
\* order_value 1000: it leaks 100 + 200 + 50, and the other row nothing.
C9_Witness ==
    /\ Estimated
    /\ Len(df) = 2
    /\ \E i, j \in Rows :
         /\ df[i].delivery_cost = Num(50) /\ df[i].value_leakage = Num(0)
         /\ ~df[i].deviation
         /\ df[j].delivery_cost = Num(150) /\ df[j].order_value = Num(1000)
         /\ df[j].delay /\ df[j].damage /\ df[j].cost_overrun
         /\ df[j].value_leakage = Num(350)

\* C6: when the orders table has no rows the script stops before the first
\* statistic of the table (the median of delivery_cost, in the deviation
\* block) is used, so it is never past that block.
C6_EmptyTableFailsFast ==
    Len(orders) = 0 =>
      pc \in {"merge_delivery", "merge_routes", "merge_cost", "merge_feedback",
              "fillna", "deviation"}

RootCauses ==
    {Str("Normal"), Str("Traffic"), Str("Carrier Reliability"),
     Str("Handling Complexity")}

\* C3: every row's root_cause is one of the four labels, by the last
\* matching rule: "Handling Complexity" when special_handling # "None";
\* otherwise "Carrier Reliability" when carrier is "GlobalTransit"; otherwise
\* "Traffic" when traffic_delay > 2; otherwise "Normal".
C3_RootCauseLastRuleWins ==
    Tagged =>
      \A i \in Rows :
        /\ df[i].root_cause \in RootCauses
        /\ df[i].root_cause =
             (IF df[i].special_handling # Str("None")
                THEN Str("Handling Complexity")
              ELSE IF df[i].carrier = Str("GlobalTransit")
                THEN Str("Carrier Reliability")
              ELSE IF FGt(df[i].traffic_delay, Num(2))
                THEN Str("Traffic")
              ELSE Str("Normal"))

\* A tagged table with a row matching all three rules, tagged by the third,
\* and a row matching the first two only, tagged by the second.
C3_Witness ==
    /\ Tagged
    /\ \E i, j \in Rows :
         /\ df[i].traffic_delay = Num(3) /\ df[i].carrier = Str("GlobalTransit")
         /\ df[i].special_handling = Str("Fragile")
         /\ df[i].root_cause = Str("Handling Complexity")
         /\ df[j].traffic_delay = Num(3) /\ df[j].carrier = Str("GlobalTransit")
         /\ df[j].special_handling = Str("None")
         /\ df[j].root_cause = Str("Carrier Reliability")

\* Whether no row of table t carries the order_id of row i of df.
Unmatched(t, i) == \A j \in 1..Len(t) : t[j].order_id # df[i].order_id

UnmatchedEverywhere(i) ==
    /\ Unmatched(delivery, i) /\ Unmatched(routes, i)
    /\ Unmatched(cost, i) /\ Unmatched(feedback, i)

\* What C10 says of a row matched in none of the four secondary tables.
AllDefaults(i) ==
    /\ ~df[i].delay /\ ~df[i].damage /\ ~df[i].cost_overrun
    /\ df[i].value_leakage = Num(0)
    /\ df[i].risk_score = Num(0)
    /\ df[i].root_cause = Str("Handling Complexity")

\* What C10 says of a row with no match in the cost table.
ZeroFilledHandling(i) ==
    /\ df[i].special_handling = Num(0)
    /\ df[i].special_handling # Str("None")
    /\ df[i].root_cause = Str("Handling Complexity")

\* C10 as stated: an order with no cost row has special_handling 0 and is
\* tagged "Handling Complexity"; an order matched in none of the four
\* secondary tables has all flags false, value_leakage 0, risk_score 0 and
\* root_cause "Handling Complexity".
C10_UnmatchedOrderDefaults ==
    Scored =>
      \A i \in Rows :
        /\ Unmatched(cost, i) => ZeroFilledHandling(i)
        /\ UnmatchedEverywhere(i) => AllDefaults(i)

NoNegativeCost == \A k \in Rows : NonNegative(df[k].delivery_cost)

\* C10 amended: an order with no cost row has special_handling 0 and is
\* tagged "Handling Complexity"; an order matched in none of the four
\* secondary tables has delay and damage false and root_cause "Handling
\* Complexity", and, provided no delivery_cost of the unified table is
\* negative, also cost_overrun false, value_leakage 0 and risk_score 0.
C10_UnmatchedOrderDefaultsIfNoNegativeCost ==
    Scored =>
      \A i \in Rows :
        /\ Unmatched(cost, i) => ZeroFilledHandling(i)
        /\ UnmatchedEverywhere(i) =>
             /\ ~df[i].delay /\ ~df[i].damage
             /\ df[i].root_cause = Str("Handling Complexity")
             /\ NoNegativeCost => AllDefaults(i)

\* A scored table with an order matched nowhere and an order delivered at
\* cost 50 and routed by GlobalTransit but without a cost row.
C10_Witness ==
    /\ Scored
    /\ \E i, k \in Rows :
         /\ UnmatchedEverywhere(i) /\ AllDefaults(i)
         /\ Unmatched(cost, k) /\ ZeroFilledHandling(k)
         /\ df[k].carrier = Str("GlobalTransit") /\ df[k].traffic_delay = Num(3)
         /\ df[k].delivery_cost = Num(50)

\* Whether no two rows of table t carry the same order_id.
UniqueKeys(t) ==
    \A j, k \in 1..Len(t) : j # k => t[j].order_id # t[k].order_id

\* C4 as stated: after the four joins the unified table has exactly as many
\* rows as the orders table, whatever the secondary tables hold.
C4_RowCountIsOrdersCount == Joined => Len(df) = Len(orders)

\* C4 amended: no orders row is ever dropped (each is in the unified table,
\* its cells from a table that did not match set to 0 by the fill), so the
\* unified table has at least as many rows as orders; it has exactly as
\* many, none multiplied, provided no secondary table holds two rows with
\* the same order_id.
C4_NoRowDroppedAndCountIfUniqueKeys ==
    Joined =>
      /\ \A o \in 1..Len(orders) :
           \E i \in Rows : /\ df[i].order_id = orders[o].order_id
                            /\ df[i].order_value = orders[o].order_value
      /\ Len(df) >= Len(orders)
      /\ (UniqueKeys(delivery) /\ UniqueKeys(routes) /\ UniqueKeys(cost)
            /\ UniqueKeys(feedback)) => Len(df) = Len(orders)
      /\ Filled =>
           \A i \in Rows :
             /\ Unmatched(delivery, i) =>
                  \A c \in DeliveryCols : df[i][c] = Num(0)
             /\ Unmatched(routes, i) =>
                  \A c \in RoutesCols : df[i][c] = Num(0)
             /\ Unmatched(cost, i) => \A c \in CostCols : df[i][c] = Num(0)
             /\ Unmatched(feedback, i) =>
                  \A c \in FeedbackCols : df[i][c] = Num(0)

\* A filled table of as many rows as orders, with an order that matched a
\* route but no delivery, the secondary tables free of duplicate ids.
C4_Witness ==
    /\ Filled
    /\ Len(orders) >= 1 /\ Len(df) = Len(orders)
    /\ UniqueKeys(delivery) /\ UniqueKeys(routes)
    /\ UniqueKeys(cost) /\ UniqueKeys(feedback)
    /\ \E i \in Rows : /\ Unmatched(delivery, i) /\ ~Unmatched(routes, i)
                       /\ df[i].status = Num(0)
                       /\ df[i].carrier = Str("FastShip")

Simulated == view.page = "Value Leakage Simulator"

C7_SimulatorArithmetic ==
    (Simulated /\ view.error = "none") =>
      LET b == view.base_leakage
          w == 4 * sliders.delay_reduction + 4 * sliders.damage_reduction
               + 2 * sliders.route_saving
      IN  /\ b = SumSeq([i \in Rows |-> df[i].value_leakage])
          /\ view.simulated_saving = Q(b.num * w, b.den * 1000)
          /\ view.new_baseline = FSub(b, view.simulated_saving)
          /\ FAdd(view.simulated_saving, view.new_baseline) = b
          /\ (b = Num(1000) /\ sliders = DefaultSliders) =>
                /\ view.simulated_saving = Num(150)
                /\ view.new_baseline = Num(850)
                /\ view.projected_savings = Num(150)
                /\ view.leakage_baseline = Num(850)
                /\ view.roi_horizon = Q(6667, 10)

\* The Simulator rendered over a table leaking 1000 with the default sliders.
C7_Witness ==
    /\ Simulated
    /\ view.error = "none"
    /\ Len(df) >= 1
    /\ view.base_leakage = Num(1000)
    /\ sliders = DefaultSliders
    /\ view.simulated_saving = Num(150)

\* The sum of value_leakage over the rows of carrier c.
CarrierLeakage(c) ==
    SumSeq(Column(SelectSeq(df, LAMBDA r : r.carrier = c), "value_leakage"))

\* C8: the Top Recommended Actions list has min(3, number of distinct
\* carriers) entries, never more than 3, each a distinct carrier with its
\* leakage sum, in non-increasing order of that sum, and no carrier left out
\* has a larger sum than a carrier in the list.
C8_TopActions ==
    (view.page = "Executive Dashboard" /\ view.error = "none") =>
      LET a       == view.actions
          all     == {df[i].carrier : i \in Rows}
          listed  == {a[i].carrier : i \in 1..Len(a)}
      IN  /\ Len(a) = IF Cardinality(all) < 3 THEN Cardinality(all) ELSE 3
          /\ Len(a) <= 3
          /\ listed \subseteq all
          /\ Cardinality(listed) = Len(a)
          /\ \A i \in 1..Len(a) : a[i].loss = CarrierLeakage(a[i].carrier)
          /\ \A i, j \in 1..Len(a) : i < j => ~FGt(a[j].loss, a[i].loss)
          /\ \A c \in all \ listed :
               \A i \in 1..Len(a) : ~FGt(CarrierLeakage(c), a[i].loss)

\* The dashboard rendered over four carriers of unequal leakage: three are
\* listed, the first above the last, and the fourth is left out.
C8_Witness ==
    /\ view.page = "Executive Dashboard"
    /\ view.error = "none"
    /\ Cardinality({df[i].carrier : i \in Rows}) = 4
    /\ Len(view.actions) = 3
    /\ FGt(view.actions[1].loss, view.actions[3].loss)
    /\ \E c \in {df[i].carrier : i \in Rows} :
         /\ \A i \in 1..3 : view.actions[i].carrier # c
         /\ ~FGt(CarrierLeakage(c), view.actions[3].loss)

=============================================================================
